---- MODULE Spec2Model ----
(***************************************************************************)
(* A model of student_grades.py: the Reader (read_student_data), the       *)
(* Evaluator (calculate_average, assign_grade, calculate_min_max_range),   *)
(* the Aggregator (process_student_results), the Writer                    *)
(* (write_results_to_csv) and the __main__ block that chains them.         *)
(*                                                                         *)
(* Text is a sequence of pieces.  A piece is either one of the characters  *)
(* that matter to int() or to the csv module (a digit, a sign, "_", " ",   *)
(* ",", the double quote, "\r", "\n", ".") or a run of other characters    *)
(* ("abc", "cyber_security").  Python indexes from 0 and TLA+ from 1, so   *)
(* row[k] of the source is row[k + 1] here.  A float rounded to 2 decimal  *)
(* places is kept as its number of hundredths (88.0 is 8800).              *)
(***************************************************************************)
EXTENDS Integers, Sequences, FiniteSets, TLC

VARIABLES entry, file, pc, rowidx, students_data, results, sidx,
          output, console, exit_status, score, grade

vars == <<entry, file, pc, rowidx, students_data, results, sidx,
          output, console, exit_status, score, grade>>

\* ------------------------------------------------------------------ bounds
MaxRows == 3

MaxRecs == 2

\* ------------------------------------------------------- general helpers
RECURSIVE Concat(_)
Concat(ss) == IF ss = <<>> THEN <<>> ELSE Head(ss) \o Concat(Tail(ss))

RECURSIVE SeqsUpTo(_, _)
SeqsUpTo(S, n) ==
  IF n = 0 THEN {<<>>}
  ELSE LET shorter == SeqsUpTo(S, n - 1)
       IN shorter \cup {Append(s, x) : s \in {t \in shorter : Len(t) = n - 1}, x \in S}

Range(s) == {s[i] : i \in 1..Len(s)}

\* ------------------------------------------------------------------ int()
Digits == <<"0", "1", "2", "3", "4", "5", "6", "7", "8", "9">>

IsDigit(c) == \E d \in 1..Len(Digits) : Digits[d] = c

DigitVal(c) == (CHOOSE d \in 1..Len(Digits) : Digits[d] = c) - 1

RECURSIVE LStrip(_)
LStrip(s) == IF s # <<>> /\ Head(s) = " " THEN LStrip(Tail(s)) ELSE s

RECURSIVE RStrip(_)
RStrip(s) ==
  IF s # <<>> /\ s[Len(s)] = " " THEN RStrip(SubSeq(s, 1, Len(s) - 1)) ELSE s

Strip(s) == RStrip(LStrip(s))

HasSign(s) == s # <<>> /\ Head(s) \in {"+", "-"}

Unsigned(s) == IF HasSign(s) THEN Tail(s) ELSE s

\* the digits of an integer literal: digits, with single "_" between digits
IsDigitRun(b) ==
  /\ b # <<>>
  /\ IsDigit(b[1])
  /\ IsDigit(b[Len(b)])
  /\ \A i \in 1..Len(b) : IsDigit(b[i]) \/ b[i] = "_"
  /\ \A i \in 1..(Len(b) - 1) : ~(b[i] = "_" /\ b[i + 1] = "_")

RECURSIVE DigitRunVal(_, _)
DigitRunVal(b, acc) ==
  IF b = <<>> THEN acc
  ELSE IF Head(b) = "_" THEN DigitRunVal(Tail(b), acc)
  ELSE DigitRunVal(Tail(b), 10 * acc + DigitVal(Head(b)))

\* int(s) raises ValueError exactly when IntParses(s) is false
IntParses(s) == IsDigitRun(Unsigned(Strip(s)))

int(s) ==
  LET t == Strip(s)
      v == DigitRunVal(Unsigned(t), 0)
  IN IF HasSign(t) /\ Head(t) = "-" THEN 0 - v ELSE v

\* ------------------------------------------------------------ the records
Subjects == <<"cyber_security", "data_science", "computing_foundation",
              "digital_literacy", "software_foundation">>

MinFields == 6

\* the dict literal with two score columns exchanged
RawRecord_Swapped(row) ==
  [name |-> row[1],
   cyber_security |-> int(row[3]),
   data_science |-> int(row[2]),
   computing_foundation |-> int(row[4]),
   digital_literacy |-> int(row[5]),
   software_foundation |-> int(row[6])]

\* the dict literal of read_student_data: name, then int() of the five scores
RawRecord(row) ==
  [name |-> row[1],
   cyber_security |-> int(row[2]),
   data_science |-> int(row[3]),
   computing_foundation |-> int(row[4]),
   digital_literacy |-> int(row[5]),
   software_foundation |-> int(row[6])]

\* "<=" for "<" in the field-count check
IsShortRow_Inclusive(row) == Len(row) <= MinFields

IsShortRow(row) == Len(row) < MinFields

\* int() left off the last score column
RaisesValueError_SkipsLast(row) == \E k \in 2..(MinFields - 1) : ~IntParses(row[k])

\* int() applied to every field after the name
RaisesValueError_AllFields(row) == \E k \in 2..Len(row) : ~IntParses(row[k])

\* some int() of the dict literal raises ValueError
RaisesValueError(row) == \E k \in 2..MinFields : ~IntParses(row[k])

\* ------------------------------------------------------------- the inputs
HeaderRow == <<<<"name">>, <<"cyber_security">>, <<"data_science">>,
               <<"computing_foundation">>, <<"digital_literacy">>,
               <<"software_foundation">>>>

RowAlice == <<<<"Alice">>, <<"9", "0">>, <<"8", "5">>, <<"7", "0">>,
              <<"9", "5">>, <<"1", "0", "0">>>>

RowBob == <<<<"Bob">>, <<"3", "0">>, <<"4", "0">>, <<"3", "5">>,
            <<"2", "0">>, <<"2", "5">>>>

RowCarl == <<<<"Carl">>, <<"abc">>, <<"5", "0">>, <<"6", "0">>,
             <<"7", "0">>, <<"8", "0">>>>

RowFourFields == <<<<"Dee">>, <<"1">>, <<"2">>, <<"3">>>>

RowShortNonNumeric == <<<<"Eve">>, <<"abc">>, <<"5">>>>

RowBlank == <<>>

RowExtraField == <<<<"Fay">>, <<"4", "0">>, <<"4", "0">>, <<"4", "0">>,
                   <<"4", "0">>, <<"4", "0">>, <<"xyz">>>>

RowLastScoreEmpty == <<<<"Gus">>, <<"5", "0">>, <<"6", "0">>, <<"7", "0">>,
                       <<"8", "0">>, <<>>>>

RowDecimalScore == <<<<"Hal">>, <<"5", "0">>, <<"7", ".", "5">>, <<"7", "0">>,
                     <<"8", "0">>, <<"9", "0">>>>

\* a quoted name that spans two lines; scores with sign, blank and "_"
RowTwoLineName == <<<<"Al", "\n", "ice">>, <<"-", "5">>, <<"+", "7">>,
                    <<" ", "8">>, <<"0">>, <<"1", "_", "0", "0">>>>

\* a name with a comma and a double quote; average 79.8
RowQuotedName == <<<<"Ng", ",", " ", "\"", "Jo", "\"">>, <<"8", "0">>,
                   <<"8", "0">>, <<"8", "0">>, <<"8", "0">>, <<"7", "9">>>>

SampleRows == {RowAlice, RowBob, RowCarl, RowFourFields, RowShortNonNumeric,
               RowBlank, RowExtraField, RowLastScoreEmpty, RowDecimalScore,
               RowTwoLineName, RowQuotedName}

\* students.csv: absent, empty, or a header row followed by data rows
Files ==
  {[exists |-> FALSE, rows |-> <<>>], [exists |-> TRUE, rows |-> <<>>]}
    \cup {[exists |-> TRUE, rows |-> <<HeaderRow>> \o d] :
            d \in SeqsUpTo(SampleRows, MaxRows)}

\* ----------------------------------------------------------- the console
Say(msg, about) == Append(console, [msg |-> msg, about |-> about])

\* ------------------------------------------------------------ Evaluator
len(student) == Cardinality(DOMAIN student)

HasKeys(student, keys) == \A k \in keys : k \in DOMAIN student

\* round(num / den, 2) in hundredths, den > 0: nearest, an exact tie to even
Round2(num, den) ==
  LET n == 100 * num
      q == n \div den
      r == n % den
  IN IF 2 * r < den THEN q
     ELSE IF 2 * r > den THEN q + 1
     ELSE IF q % 2 = 0 THEN q ELSE q + 1

Total(student) ==
  student.cyber_security + student.data_science + student.computing_foundation
    + student.digital_literacy + student.software_foundation

\* the division by len(student), the name counted as a subject
calculate_average_DividesByLen(student) ==
  IF HasKeys(student, Range(Subjects))
  THEN [none |-> FALSE, value |-> Round2(Total(student), len(student))]
  ELSE [none |-> TRUE, value |-> 0]

\* None on KeyError, else the rounded average
calculate_average(student) ==
  IF HasKeys(student, Range(Subjects))
  THEN [none |-> FALSE, value |-> Round2(Total(student), len(student) - 1)]
  ELSE [none |-> TRUE, value |-> 0]

\* ">" for ">=" at every threshold
assign_grade_Exclusive(s) ==
  IF s > 80 * 100 THEN "A"
  ELSE IF s > 70 * 100 THEN "B"
  ELSE IF s > 60 * 100 THEN "C"
  ELSE IF s > 50 * 100 THEN "D"
  ELSE IF s > 40 * 100 THEN "E"
  ELSE "F"

assign_grade(s) ==
  IF s >= 80 * 100 THEN "A"
  ELSE IF s >= 70 * 100 THEN "B"
  ELSE IF s >= 60 * 100 THEN "C"
  ELSE IF s >= 50 * 100 THEN "D"
  ELSE IF s >= 40 * 100 THEN "E"
  ELSE "F"

Passed == "Congratulations, you passed!"

Failed == "Fail"

pass_fail(average) == IF average >= 40 * 100 THEN Passed ELSE Failed

Min(S) == CHOOSE x \in S : \A y \in S : x <= y

Max(S) == CHOOSE x \in S : \A y \in S : x >= y

calculate_min_max_range(student_scores) ==
  LET min_score == Min(Range(student_scores))
      max_score == Max(Range(student_scores))
  IN <<min_score, max_score, max_score - min_score>>

\* ----------------------------------------------------------- Aggregator
student_scores(student) == [i \in 1..Len(Subjects) |-> student[Subjects[i]]]

student_results(student, average) ==
  LET mmr == calculate_min_max_range(student_scores(student))
  IN [name |-> student.name,
      cyber_security |-> student.cyber_security,
      data_science |-> student.data_science,
      computing_foundation |-> student.computing_foundation,
      digital_literacy |-> student.digital_literacy,
      software_foundation |-> student.software_foundation,
      average |-> average,
      grade |-> assign_grade(average),
      min_score |-> mmr[1],
      max_score |-> mmr[2],
      score_range |-> mmr[3],
      pass_fail |-> pass_fail(average)]

\* the KeyError that leaves one iteration of process_student_results
\* uncaught: the score list of line 116 is built outside any try, and so is
\* student['name'] of line 132
RaisesKeyError(student) ==
  \/ ~HasKeys(student, Range(Subjects))
  \/ "name" \notin DOMAIN student

\* ---------------------------------------------------------------- Writer
header == <<"name", "cyber_security", "data_science", "computing_foundation",
            "digital_literacy", "software_foundation", "average", "grade",
            "min_score", "max_score", "score_range", "pass_fail">>

RECURSIVE NatText(_)
NatText(n) ==
  IF n < 10 THEN <<Digits[n + 1]>>
  ELSE NatText(n \div 10) \o <<Digits[(n % 10) + 1]>>

\* str() of an int
IntText(n) == IF n < 0 THEN <<"-">> \o NatText(0 - n) ELSE NatText(n)

\* repr() of a float of h hundredths: 8800 is 88.0, 3025 is 30.25, -20 is -0.2
FloatText(h) ==
  LET a == IF h < 0 THEN 0 - h ELSE h
      frac == a % 100
      sign == IF h < 0 THEN <<"-">> ELSE <<>>
  IN sign \o NatText(a \div 100) \o <<".">>
       \o (IF frac % 10 = 0 THEN <<Digits[(frac \div 10) + 1]>>
           ELSE <<Digits[(frac \div 10) + 1], Digits[(frac % 10) + 1]>>)

PassFailText(label) ==
  IF label = Passed THEN <<"Congratulations", ",", " ", "you passed!">>
  ELSE <<label>>

\* the text the csv writer is handed for one key of a row dict
FieldText(rowdict, key) ==
  CASE key = "name" -> rowdict.name
    [] key = "average" -> FloatText(rowdict.average)
    [] key = "grade" -> <<rowdict.grade>>
    [] key = "pass_fail" -> PassFailText(rowdict.pass_fail)
    [] OTHER -> IntText(rowdict[key])

\* QUOTE_MINIMAL of the excel dialect: a field is quoted when it holds the
\* delimiter, the quote character or a character of the line terminator
NeedsQuotes(field) == \E i \in 1..Len(field) : field[i] \in {",", "\"", "\r", "\n"}

RECURSIVE DoubleQuotes(_)
DoubleQuotes(field) ==
  IF field = <<>> THEN <<>>
  ELSE (IF Head(field) = "\"" THEN <<"\"", "\"">> ELSE <<Head(field)>>)
         \o DoubleQuotes(Tail(field))

\* a writer that never quotes
CsvField_NeverQuotes(field) == field

CsvField(field) ==
  IF NeedsQuotes(field) THEN <<"\"">> \o DoubleQuotes(field) \o <<"\"">>
  ELSE field

RECURSIVE JoinFields(_)
JoinFields(fields) ==
  IF Len(fields) = 1 THEN CsvField(fields[1])
  ELSE CsvField(Head(fields)) \o <<",">> \o JoinFields(Tail(fields))

\* writer.writerow: the fields joined by "," and ended by "\r\n"
CsvLine(fields) == JoinFields(fields) \o <<"\r", "\n">>

\* DictWriter.writeheader
writeheader == CsvLine([i \in 1..Len(header) |-> <<header[i]>>])

\* DictWriter.writerows: each dict in the order of fieldnames
writerows(rs) ==
  Concat([k \in 1..Len(rs) |->
            CsvLine([i \in 1..Len(header) |-> FieldText(rs[k], header[i])])])

\* ------------------------------------------------- arguments of direct calls
RecNoSoftware ==
  [name |-> <<"Ian">>, cyber_security |-> 50, data_science |-> 60,
   computing_foundation |-> 70, digital_literacy |-> 80]

RecNoCyber ==
  [name |-> <<"Joy">>, data_science |-> 60, computing_foundation |-> 70,
   digital_literacy |-> 80, software_foundation |-> 90]

RecNoName ==
  [cyber_security |-> 50, data_science |-> 60, computing_foundation |-> 70,
   digital_literacy |-> 80, software_foundation |-> 90]

RecExtraKey ==
  [name |-> <<"Kim">>, cyber_security |-> 20, data_science |-> 20,
   computing_foundation |-> 20, digital_literacy |-> 20,
   software_foundation |-> 20, age |-> 19]

SampleRecords ==
  {RawRecord(RowAlice), RawRecord(RowBob), RawRecord(RowTwoLineName),
   RecNoSoftware, RecNoCyber, RecNoName, RecExtraKey}

SampleResults ==
  {student_results(r, calculate_average(r).value) :
     r \in {RawRecord(RowAlice), RawRecord(RowBob), RawRecord(RowTwoLineName),
            RawRecord(RowQuotedName), RecExtraKey}}

\* the averages assign_grade is called with: -1.00 .. 101.00 by hundredths
SampleScores == (0 - 100)..(101 * 100)

\* --------------------------------------------------------------- the state
NotExited == 0 - 1

NoFile == [exists |-> FALSE, text |-> <<>>]

TypeOK ==
  /\ entry \in {"__main__", "process_student_results", "write_results_to_csv",
                "assign_grade"}
  /\ file \in Files
  /\ pc \in {"open", "header", "rows", "main", "process", "write", "complete",
             "assign_grade", "done"}
  /\ rowidx \in 1..(MaxRows + 2)
  /\ sidx \in 1..(Len(students_data) + 1)
  /\ output.exists \in BOOLEAN
  /\ exit_status \in {NotExited, 0, 1}
  /\ score \in SampleScores
  /\ grade \in {"", "A", "B", "C", "D", "E", "F"}

\* python starts student_grades.py; students.csv is whatever it is
Init ==
  /\ entry = "__main__"
  /\ file \in Files
  /\ pc = "open"
  /\ rowidx = 1
  /\ students_data = <<>>
  /\ results = <<>>
  /\ sidx = 1
  /\ output = NoFile
  /\ console = <<>>
  /\ exit_status = NotExited
  /\ score = 0
  /\ grade = ""

\* one function of the module called on its own with an argument
InitCall ==
  /\ entry \in {"process_student_results", "write_results_to_csv", "assign_grade"}
  /\ file = [exists |-> FALSE, rows |-> <<>>]
  /\ pc = IF entry = "process_student_results" THEN "process"
          ELSE IF entry = "write_results_to_csv" THEN "write"
          ELSE "assign_grade"
  /\ rowidx = 1
  /\ IF entry = "process_student_results"
     THEN students_data \in SeqsUpTo(SampleRecords, MaxRecs)
     ELSE students_data = <<>>
  /\ IF entry = "write_results_to_csv"
     THEN results \in SeqsUpTo(SampleResults, MaxRecs)
     ELSE results = <<>>
  /\ sidx = 1
  /\ output = NoFile
  /\ console = <<>>
  /\ exit_status = NotExited
  /\ IF entry = "assign_grade" THEN score \in SampleScores ELSE score = 0
  /\ grade = ""

\* an exception nobody catches: the traceback, then exit status 1
Uncaught(exception) ==
  /\ console' = Say("Traceback", exception)
  /\ exit_status' = 1
  /\ pc' = "done"

\* ------------------------------------------------------ read_student_data
\* open(filename): FileNotFoundError is caught, reported, and sys.exit(1)
OpenFile ==
  /\ pc = "open"
  /\ IF file.exists
     THEN /\ pc' = "header"
          /\ UNCHANGED <<console, exit_status>>
     ELSE /\ console' = Say("Error: not found", "students.csv")
          /\ exit_status' = 1
          /\ pc' = "done"
  /\ UNCHANGED <<entry, file, rowidx, students_data, results, sidx, output,
                 score, grade>>

\* header = next(csv_reader): StopIteration on a file without rows
ReadHeader ==
  /\ pc = "header"
  /\ IF file.rows = <<>>
     THEN /\ Uncaught("StopIteration")
          /\ UNCHANGED rowidx
     ELSE /\ pc' = "rows"
          /\ rowidx' = 2
          /\ UNCHANGED <<console, exit_status>>
  /\ UNCHANGED <<entry, file, students_data, results, sidx, output, score, grade>>

\* one iteration of "for row in csv_reader"
ReadRow ==
  /\ pc = "rows"
  /\ rowidx <= Len(file.rows)
  /\ LET row == file.rows[rowidx]
     IN IF IsShortRow(row)
        THEN /\ console' = Say("Missing data", rowidx)
             /\ rowidx' = rowidx + 1
             /\ UNCHANGED <<pc, students_data, exit_status>>
        ELSE IF RaisesValueError(row)
        THEN /\ console' = Say("Invalid data", rowidx)
             /\ exit_status' = 1
             /\ pc' = "done"
             /\ UNCHANGED <<rowidx, students_data>>
        ELSE /\ students_data' = Append(students_data, RawRecord(row))
             /\ rowidx' = rowidx + 1
             /\ UNCHANGED <<pc, console, exit_status>>
  /\ UNCHANGED <<entry, file, results, sidx, output, score, grade>>

\* the loop is over: return data
ReaderReturn ==
  /\ pc = "rows"
  /\ rowidx > Len(file.rows)
  /\ pc' = "main"
  /\ UNCHANGED <<entry, file, rowidx, students_data, results, sidx, output,
                 console, exit_status, score, grade>>

\* ---------------------------------------------------------------- __main__
\* "if students_data:" of the main block
MainCheck ==
  /\ pc = "main"
  /\ pc' = IF students_data # <<>> THEN "process" ELSE "complete"
  /\ UNCHANGED <<entry, file, rowidx, students_data, results, sidx, output,
                 console, exit_status, score, grade>>

\* print("Processing completed. Exiting...") and the end of the script
Complete ==
  /\ pc = "complete"
  /\ console' = Say("Processing completed", "")
  /\ exit_status' = 0
  /\ pc' = "done"
  /\ UNCHANGED <<entry, file, rowidx, students_data, results, sidx, output,
                 score, grade>>

\* ------------------------------------------------ process_student_results
\* one iteration of "for student in students_data"
ProcessStudent ==
  /\ pc = "process"
  /\ sidx <= Len(students_data)
  /\ LET student == students_data[sidx]
         average == calculate_average(student)
     IN IF RaisesKeyError(student)
        THEN /\ Uncaught("KeyError")
             /\ UNCHANGED <<results, sidx>>
        ELSE /\ results' = IF average.none THEN results
                           ELSE Append(results, student_results(student, average.value))
             /\ console' = IF average.none THEN Say("Missing data", sidx) ELSE console
             /\ sidx' = sidx + 1
             /\ UNCHANGED <<pc, exit_status>>
  /\ UNCHANGED <<entry, file, rowidx, students_data, output, score, grade>>

\* return results
ProcessReturn ==
  /\ pc = "process"
  /\ sidx > Len(students_data)
  /\ pc' = IF entry = "__main__" THEN "write" ELSE "done"
  /\ UNCHANGED <<entry, file, rowidx, students_data, results, sidx, output,
                 console, exit_status, score, grade>>

\* ---------------------------------------------------- write_results_to_csv
WriteResults ==
  /\ pc = "write"
  /\ IF results # <<>>
     THEN /\ output' = [exists |-> TRUE, text |-> writeheader \o writerows(results)]
          /\ console' = Say("Results written", "student_results.csv")
     ELSE /\ console' = Say("No data to write.", "")
          /\ UNCHANGED output
  /\ pc' = IF entry = "__main__" THEN "complete" ELSE "done"
  /\ UNCHANGED <<entry, file, rowidx, students_data, results, sidx,
                 exit_status, score, grade>>

\* ------------------------------------------------------------ assign_grade
AssignGrade ==
  /\ pc = "assign_grade"
  /\ grade' = assign_grade(score)
  /\ pc' = "done"
  /\ UNCHANGED <<entry, file, rowidx, students_data, results, sidx, output,
                 console, exit_status, score>>

\* ------------------------------------------------------ the specifications
Next ==
  \/ OpenFile
  \/ ReadHeader
  \/ ReadRow
  \/ ReaderReturn
  \/ MainCheck
  \/ ProcessStudent
  \/ ProcessReturn
  \/ WriteResults
  \/ Complete

Spec == Init /\ [][Next]_vars

NextCall ==
  \/ ProcessStudent
  \/ ProcessReturn
  \/ WriteResults
  \/ AssignGrade

SpecCall == InitCall /\ [][NextCall]_vars

\* ------------------------------------------- vocabulary of the properties
DataRowIndexes == 2..Len(file.rows)

HasSixFields(i) == Len(file.rows[i]) >= 6

\* a score field, columns 2..6 of the row, that is not an integer
BadScore(i) == HasSixFields(i) /\ \E k \in 2..6 : ~IntParses(file.rows[i][k])

HasBadScore == \E i \in DataRowIndexes : BadScore(i)

FirstBadScore == CHOOSE i \in DataRowIndexes :
                   BadScore(i) /\ \A j \in 2..(i - 1) : ~BadScore(j)

\* the indexes of the rows of 2..n that have at least 6 fields, in order
RECURSIVE SixFieldRows(_)
SixFieldRows(n) ==
  IF n < 2 THEN <<>>
  ELSE IF HasSixFields(n) THEN Append(SixFieldRows(n - 1), n)
  ELSE SixFieldRows(n - 1)

Said(msg, about) == \E k \in 1..Len(console) : console[k] = [msg |-> msg, about |-> about]

Count(msg) == Cardinality({k \in 1..Len(console) : console[k].msg = msg})

LastSaid == console[Len(console)]

\* the record the k-th subject of row i should give
ScoreOf(i, k) == int(file.rows[i][k + 1])

CarriesRow(rec, i) ==
  /\ rec.name = file.rows[i][1]
  /\ \A k \in 1..Len(Subjects) : rec[Subjects[k]] = ScoreOf(i, k)

\* a csv reader of the excel dialect, to read the output file back.  A
\* character is outside quotes when an even number of quote characters comes
\* before it; a record ends at a line terminator outside quotes, a field at a
\* comma outside quotes; inside a quoted field the opening and the closing
\* quote go and a doubled quote stands for one.
QuoteAt(text) == {j \in 1..Len(text) : text[j] = "\""}

Ordered(S) ==
  [k \in 1..Cardinality(S) |-> CHOOSE x \in S : Cardinality({y \in S : y < x}) = k - 1]

Unquote(raw) ==
  LET Q == QuoteAt(raw)
      before(i) == Cardinality({j \in Q : j < i})
      keep == {i \in 1..Len(raw) :
                 raw[i] = "\"" => (before(i) % 2 = 0 /\ before(i) >= 2)}
      at == Ordered(keep)
  IN [k \in 1..Len(at) |-> raw[at[k]]]

CsvRows(text) ==
  LET Q == QuoteAt(text)
      outside(i) == Cardinality({j \in Q : j < i}) % 2 = 0
      ends == Ordered({i \in 1..Len(text) :
                         /\ outside(i)
                         /\ \/ text[i] = "\n"
                            \/ text[i] = "\r" /\ ~(i < Len(text) /\ text[i + 1] = "\n")})
      commas == {i \in 1..Len(text) : text[i] = "," /\ outside(i)}
      first(k) == IF k = 1 THEN 1 ELSE ends[k - 1] + 1
      last(k) == IF ends[k] > 1 /\ text[ends[k]] = "\n" /\ text[ends[k] - 1] = "\r"
                 THEN ends[k] - 2 ELSE ends[k] - 1
      Record(k) ==
        LET seps == Ordered({c \in commas : first(k) <= c /\ c <= last(k)})
            from(j) == IF j = 1 THEN first(k) ELSE seps[j - 1] + 1
            to(j) == IF j = Len(seps) + 1 THEN last(k) ELSE seps[j] - 1
        IN [j \in 1..(Len(seps) + 1) |-> Unquote(SubSeq(text, from(j), to(j)))]
  IN [k \in 1..Len(ends) |-> Record(k)]

\* the lines of a text read in text mode: "\r\n", "\n" and "\r" each end one
LineCount(text) ==
  Cardinality({i \in 1..Len(text) :
                 \/ text[i] = "\n"
                 \/ text[i] = "\r" /\ ~(i < Len(text) /\ text[i + 1] = "\n")})

LineBreaks(field) == Cardinality({i \in 1..Len(field) : field[i] \in {"\r", "\n"}})

RECURSIVE SumOver(_, _)
SumOver(f, n) == IF n = 0 THEN 0 ELSE f[n] + SumOver(f, n - 1)

\* ---------------------------------------------------------- the properties
Finished == pc = "done"

\* C1: when some data row with at least 6 fields has a score field (columns
\* 2..6) that is not an integer, the run never reads past the first such row,
\* never reaches process_student_results or write_results_to_csv, writes no
\* output file, and ends at that row with exit status 1 after naming the row.
C1_AbortsAtBadScore ==
  (file.exists /\ HasBadScore) =>
    /\ rowidx <= FirstBadScore
    /\ pc \in {"open", "header", "rows", "done"}
    /\ results = <<>>
    /\ ~output.exists
    /\ exit_status # 0
    /\ Finished => /\ exit_status = 1
                   /\ rowidx = FirstBadScore
                   /\ LastSaid = [msg |-> "Invalid data", about |-> FirstBadScore]
                   /\ Len(students_data) = Len(SixFieldRows(FirstBadScore - 1))

\* the run has aborted at a bad row that a valid row precedes and a row follows
C1_Witness ==
  /\ Finished
  /\ file.exists
  /\ HasBadScore
  /\ exit_status = 1
  /\ Len(students_data) >= 1
  /\ FirstBadScore < Len(file.rows)

\* C2: a data row with fewer than 6 fields is skipped with a diagnostic and
\* is never where a run ends: the records read so far are exactly those of
\* the rows read so far that have at least 6 fields, each skipped row has its
\* "Missing data" line, and a run that completes has one result and one
\* output row for every row with at least 6 fields and none for the others.
C2_ShortRowSkipped ==
  LET read == IF pc \in {"open", "header"} THEN 1 ELSE rowidx - 1
      kept == SixFieldRows(read)
  IN /\ Len(students_data) = Len(kept)
     /\ \A k \in 1..Len(kept) : CarriesRow(students_data[k], kept[k])
     /\ \A i \in 2..read : ~HasSixFields(i) => Said("Missing data", i)
     /\ Count("Missing data") = Cardinality({i \in 2..read : ~HasSixFields(i)})
     /\ (Finished /\ exit_status = 1 /\ file.rows # <<>>) =>
          (rowidx \in DataRowIndexes /\ HasSixFields(rowidx))
     /\ (Finished /\ exit_status = 0) =>
          /\ Len(results) = Len(SixFieldRows(Len(file.rows)))
          /\ \A k \in 1..Len(results) :
               CarriesRow(results[k], SixFieldRows(Len(file.rows))[k])
          /\ output.exists =>
               Len(CsvRows(output.text)) = 1 + Len(SixFieldRows(Len(file.rows)))

\* a completed run over a file with a short row between two rows that are kept
C2_Witness ==
  /\ Finished
  /\ exit_status = 0
  /\ Len(file.rows) = 4
  /\ HasSixFields(2)
  /\ ~HasSixFields(3)
  /\ file.rows[3] # <<>>
  /\ HasSixFields(4)
  /\ Len(results) = 2
  /\ Said("Missing data", 3)

\* C3: for a file that holds only the header row the run ends with exit
\* status 0, writes no output file, and prints "No data to write." before the
\* completion message.
C3_HeaderOnly ==
  (Finished /\ file.exists /\ Len(file.rows) = 1) =>
    /\ exit_status = 0
    /\ ~output.exists
    /\ console = <<[msg |-> "No data to write.", about |-> ""],
                   [msg |-> "Processing completed", about |-> ""]>>

\* the records of the argument that have all five subject scores
RECURSIVE WithAllSubjects(_)
WithAllSubjects(recs) ==
  IF recs = <<>> THEN <<>>
  ELSE IF HasKeys(Head(recs), Range(Subjects))
       THEN <<Head(recs)>> \o WithAllSubjects(Tail(recs))
       ELSE WithAllSubjects(Tail(recs))

\* C4: process_student_results called with records of which some lack a
\* subject score returns, without raising, the results of exactly the other
\* records in order, and prints one "Missing data" line per excluded record.
C4_MissingFieldExcluded ==
  (/\ entry = "process_student_results"
   /\ Finished
   /\ \A k \in 1..Len(students_data) : "name" \in DOMAIN students_data[k]) =>
    LET kept == WithAllSubjects(students_data)
    IN /\ exit_status # 1
       /\ Len(results) = Len(kept)
       /\ \A k \in 1..Len(kept) :
            /\ results[k].name = kept[k].name
            /\ \A j \in 1..Len(Subjects) : results[k][Subjects[j]] = kept[k][Subjects[j]]
       /\ Count("Missing data") = Len(students_data) - Len(kept)

\* C5: the run ends with a non-zero exit status exactly when students.csv is
\* missing or a row with a non-integer score field is met, and otherwise ends
\* with status 0 right after the completion message.
C5_ExitStatus ==
  Finished =>
    /\ exit_status # 0 <=> (~file.exists \/ HasBadScore)
    /\ exit_status = 0 => LastSaid = [msg |-> "Processing completed", about |-> ""]

\* the letter of the highest inclusive lower bound the average reaches
LowerBounds == <<<<80, "A">>, <<70, "B">>, <<60, "C">>, <<50, "D">>, <<40, "E">>>>

Reached(s) == {k \in 1..Len(LowerBounds) : s >= 100 * LowerBounds[k][1]}

LetterFor(s) ==
  IF Reached(s) = {} THEN "F"
  ELSE LowerBounds[CHOOSE k \in Reached(s) : \A j \in Reached(s) : k <= j][2]

\* C6: assign_grade returns, for every average, the letter of the highest
\* inclusive lower bound the average reaches (80 A, 70 B, 60 C, 50 D, 40 E)
\* and F below 40, so 80 is A, 79.99 is B, 40 is E and 39.99 is F; and every
\* result says "passed" exactly when its grade is not F.
C6_GradeAndPass ==
  /\ (entry = "assign_grade" /\ Finished) =>
       /\ grade = LetterFor(score)
       /\ score = 8000 => grade = "A"
       /\ score = 7999 => grade = "B"
       /\ score = 4000 => grade = "E"
       /\ score = 3999 => grade = "F"
  /\ \A k \in 1..Len(results) :
       /\ results[k].grade = LetterFor(results[k].average)
       /\ results[k].pass_fail = Passed <=> results[k].grade # "F"
       /\ results[k].pass_fail \in {Passed, Failed}

\* assign_grade has answered at the boundary just below 80
C6_Witness == entry = "assign_grade" /\ Finished /\ score = 7999 /\ grade = "B"

\* C7: every record the Reader produces has six keys, so the divisor
\* len(student) - 1 is 5, and the average of every result is the mean of its
\* five subject scores (their sum divided by 5) rounded to the nearest
\* hundredth, within [0, 100] whenever the five scores are.
C7_AverageIsMean ==
  /\ \A k \in 1..Len(students_data) : len(students_data[k]) - 1 = 5
  /\ \A k \in 1..Len(results) :
       LET r == results[k]
           scores == {r[Subjects[j]] : j \in 1..Len(Subjects)}
           sum == SumOver([j \in 1..Len(Subjects) |-> r[Subjects[j]]], Len(Subjects))
           off == 5 * r.average - 100 * sum
       IN /\ 2 * off <= 5
          /\ 2 * off >= 0 - 5
          /\ (\A x \in scores : 0 <= x /\ x <= 100) =>
               (0 <= r.average /\ r.average <= 100 * 100)

\* Alice's row (90, 85, 70, 95, 100) has been evaluated to 88.0
C7_Witness ==
  \E k \in 1..Len(results) :
    /\ results[k].name = <<"Alice">>
    /\ results[k].average = 8800
    /\ len(students_data[k]) = 6

\* C8: in a run that ends with exit status 0 the results are, in input order
\* and one for one, the data rows with at least 6 fields: the k-th result has
\* the name and the five subject scores of the k-th such row.
C8_ResultsFollowInput ==
  (Finished /\ exit_status = 0) =>
    LET kept == SixFieldRows(Len(file.rows))
    IN /\ Len(results) = Len(kept)
       /\ \A k \in 1..Len(kept) :
            /\ results[k].name = file.rows[kept[k]][1]
            /\ results[k].cyber_security = int(file.rows[kept[k]][2])
            /\ results[k].data_science = int(file.rows[kept[k]][3])
            /\ results[k].computing_foundation = int(file.rows[kept[k]][4])
            /\ results[k].digital_literacy = int(file.rows[kept[k]][5])
            /\ results[k].software_foundation = int(file.rows[kept[k]][6])

\* a completed run over the same row twice and then a different one
C8_Witness ==
  /\ Finished
  /\ exit_status = 0
  /\ Len(results) = 3
  /\ file.rows[2] = file.rows[3]
  /\ file.rows[3] # file.rows[4]
  /\ results[1] = results[2]
  /\ results[2] # results[3]

\* the text of every column of a result, in the order of the header row
ExpectedFields(r) ==
  <<r.name, IntText(r.cyber_security), IntText(r.data_science),
    IntText(r.computing_foundation), IntText(r.digital_literacy),
    IntText(r.software_foundation), FloatText(r.average), <<r.grade>>,
    IntText(r.min_score), IntText(r.max_score), IntText(r.score_range),
    PassFailText(r.pass_fail)>>

ExpectedHeader ==
  <<<<"name">>, <<"cyber_security">>, <<"data_science">>,
    <<"computing_foundation">>, <<"digital_literacy">>,
    <<"software_foundation">>, <<"average">>, <<"grade">>, <<"min_score">>,
    <<"max_score">>, <<"score_range">>, <<"pass_fail">>>>

WriterCalled == entry = "write_results_to_csv" /\ Finished

\* C9 as stated: N >= 1 results give a file of exactly N + 1 lines of text.
C9_LinesAsStated ==
  (WriterCalled /\ Len(results) >= 1) =>
    (output.exists /\ LineCount(output.text) = Len(results) + 1)

\* C9 amended: write_results_to_csv called with N >= 1 results writes a file
\* that a csv reader reads back as exactly N + 1 rows, the header row and then
\* one row per result in order with the twelve fields in the column order of
\* the header; read as plain text it has N + 1 lines plus one for every line
\* break inside a name, so exactly N + 1 when no name holds one.  Called with
\* no results it writes no file and prints "No data to write.".
C9_RowsWritten ==
  WriterCalled =>
    IF Len(results) >= 1
    THEN /\ output.exists
         /\ Len(CsvRows(output.text)) = Len(results) + 1
         /\ CsvRows(output.text)[1] = ExpectedHeader
         /\ \A k \in 1..Len(results) :
              CsvRows(output.text)[k + 1] = ExpectedFields(results[k])
         /\ LineCount(output.text) =
              Len(results) + 1
                + SumOver([k \in 1..Len(results) |-> LineBreaks(results[k].name)],
                          Len(results))
         /\ LastSaid.msg = "Results written"
    ELSE /\ ~output.exists
         /\ console = <<[msg |-> "No data to write.", about |-> ""]>>

\* two results written, one of them with a name that spans two lines
C9_Witness ==
  /\ WriterCalled
  /\ Len(results) = 2
  /\ output.exists
  /\ LineBreaks(results[1].name) = 1
  /\ LineBreaks(results[2].name) = 0

\* C10: the field count is checked before any parsing and only the first six
\* fields are looked at: a row with fewer than 6 fields that has been read
\* was skipped, whatever its fields hold, and no run ends on it; a row with
\* more than 6 fields whose first six are a name and five integers has been
\* accepted with exactly those six, whatever the further fields hold.
C10_CountBeforeParse ==
  LET read == IF pc \in {"open", "header"} THEN 1 ELSE rowidx - 1
  IN \A i \in DataRowIndexes :
       /\ Len(file.rows[i]) < 6 =>
            /\ ~Said("Invalid data", i)
            /\ i <= read => Said("Missing data", i)
            /\ (Finished /\ exit_status = 1) => rowidx # i
       /\ (Len(file.rows[i]) > 6 /\ ~BadScore(i)) =>
            /\ ~Said("Invalid data", i)
            /\ ~Said("Missing data", i)
            /\ (Finished /\ exit_status = 1) => rowidx # i
            /\ i <= read =>
                 /\ Len(students_data) >= Len(SixFieldRows(i))
                 /\ CarriesRow(students_data[Len(SixFieldRows(i))], i)
                 /\ len(students_data[Len(SixFieldRows(i))]) = 6

\* a completed run that skipped a short row with a non-numeric field and
\* accepted a seven-field row with a non-numeric seventh field
C10_Witness ==
  /\ Finished
  /\ exit_status = 0
  /\ \E i \in DataRowIndexes :
       /\ Len(file.rows[i]) < 6
       /\ \E k \in 2..Len(file.rows[i]) : ~IntParses(file.rows[i][k])
  /\ \E i \in DataRowIndexes :
       /\ Len(file.rows[i]) > 6
       /\ ~IntParses(file.rows[i][7])
       /\ \E k \in 1..Len(results) : CarriesRow(results[k], i)

====
